---- MODULE Spec2Model ----
(***************************************************************************)
(* A model of src/cmds/tx.py, the "chia tx" tool that assembles unsigned   *)
(* spend bundles: the condition encoder (make_solution), the transaction   *)
(* assembler (create_unsigned_transaction), the declarative parser         *)
(* (create_unsigned_tx_from_json), the hex codec (encode_spendbundle /     *)
(* decode_spendbundle) and the command dispatcher (handler).               *)
(*                                                                         *)
(* Values.  bytes32 values (puzzle hashes, parent ids, coin ids) and       *)
(* public keys are single byte values 0..255; a Program is a sequence of   *)
(* nodes [op, args] with args a sequence of integers; a Python list is a   *)
(* sequence; None and the empty list are both the empty sequence where     *)
(* the code only tests truthiness.  An outcome is a record whose status    *)
(* is "ok" or the name of the exception that ended the call.               *)
(***************************************************************************)
EXTENDS Integers, Sequences, FiniteSets, TLC

VARIABLES
    inputs,   \* the caller's list object handed to create_unsigned_transaction
    op,       \* the operation that ran last
    args,     \* the arguments it was called with (as they were at the call)
    result    \* what it returned or raised

vars == <<inputs, op, args, result>>

\* ------------------------------------------------------------------ bounds
MaxInputs == 2
MaxOutputs == 2
MaxAmount == 2
MaxConsumed == 2
MaxEntries == 2

\* ----------------------------------------------------------------- helpers
RECURSIVE SumSeq(_)
SumSeq(s) == IF s = <<>> THEN 0 ELSE Head(s) + SumSeq(Tail(s))

RECURSIVE Concat(_)
Concat(ss) == IF ss = <<>> THEN <<>> ELSE Head(ss) \o Concat(Tail(ss))

SeqsUpTo(S, n) == UNION {[1..k -> S] : k \in 0..n}

\* --------------------------------------------- external collaborators
\* src/wallet/puzzles/puzzle_utils.py: one tagged node per condition
make_create_coin_condition(puzzlehash, amount) ==
    [op |-> "CREATE_COIN", args |-> <<puzzlehash, amount>>]

make_assert_coin_consumed_condition(coin_name) ==
    [op |-> "ASSERT_COIN_CONSUMED", args |-> <<coin_name>>]

make_assert_time_exceeds_condition(time) ==
    [op |-> "ASSERT_TIME_EXCEEDS", args |-> <<time>>]

make_assert_my_coin_id_condition(coin_name) ==
    [op |-> "ASSERT_MY_COIN_ID", args |-> <<coin_name>>]

make_assert_fee_condition(fee) ==
    [op |-> "ASSERT_FEE", args |-> <<fee>>]

\* src/wallet/puzzles/p2_delegated_puzzle.py: the solution is the quoted
\* condition list, the puzzle is the standard transaction for a public key
solution_for_conditions(condition_list) ==
    <<[op |-> "q", args |-> <<>>]>> \o condition_list

conditions_of(solution) == Tail(solution)

G1Element_from_bytes(b) == [g1 |-> b]

puzzle_for_pk(pk) == <<[op |-> "p2_delegated_puzzle", args |-> <<pk.g1>>]>>

\* the number a node's tag is hashed and serialized as
OpByte(o) ==
    CASE o = "q" -> 1
      [] o = "p2_delegated_puzzle" -> 2
      [] o = "CREATE_COIN" -> 51
      [] o = "ASSERT_COIN_CONSUMED" -> 52
      [] o = "ASSERT_MY_COIN_ID" -> 53
      [] o = "ASSERT_TIME_EXCEEDS" -> 54
      [] o = "ASSERT_FEE" -> 58
      [] OTHER -> 0

RECURSIVE FlattenProgram(_)
FlattenProgram(p) ==
    IF p = <<>> THEN <<>>
    ELSE <<OpByte(Head(p).op), Len(Head(p).args)>> \o Head(p).args
         \o FlattenProgram(Tail(p))

RECURSIVE HashBytes(_, _)
HashBytes(h, s) ==
    IF s = <<>> THEN h ELSE HashBytes((h * 31 + Head(s) + 1) % 251, Tail(s))

\* Program.get_tree_hash: a deterministic structural hash of the program
get_tree_hash(program) == HashBytes(7, FlattenProgram(program))

\* Program.to([puzzle, solution])
Program_to(puzzle, solution) == <<puzzle, solution>>

\* src/types/coin.py, as constructed at tx.py:136 and tx.py:152
Coin(parent_id, puzzle_hash, amount) ==
    [parent_id |-> parent_id, puzzle_hash |-> puzzle_hash, amount |-> amount]

\* src/types/coin_solution.py
CoinSolution(coin, puzzle_solution_pair) ==
    [coin |-> coin, solution |-> puzzle_solution_pair]

\* ------------------------------------------------------ make_solution
Truthy(x) == x # <<>>

\* a plausible slip: the fee condition is appended before the coin-id one
make_solution_conditions_fee_first(primaries, min_time, me, consumed, fee) ==
    LET c1 == [k \in 1..Len(primaries) |->
                  make_create_coin_condition(primaries[k].puzzlehash,
                                             primaries[k].amount)]
        c2 == c1 \o [k \in 1..Len(consumed) |->
                        make_assert_coin_consumed_condition(consumed[k])]
        c3 == IF min_time > 0
              THEN Append(c2, make_assert_time_exceeds_condition(min_time))
              ELSE c2
        c4 == IF fee # 0
              THEN Append(c3, make_assert_fee_condition(fee))
              ELSE c3
        c5 == IF Truthy(me)
              THEN Append(c4, make_assert_my_coin_id_condition(me[1].id))
              ELSE c4
    IN  c5

make_solution_conditions(primaries, min_time, me, consumed, fee) ==
    LET c1 == IF Truthy(primaries)
              THEN [k \in 1..Len(primaries) |->
                       make_create_coin_condition(primaries[k].puzzlehash,
                                                  primaries[k].amount)]
              ELSE <<>>
        c2 == IF Truthy(consumed)
              THEN c1 \o [k \in 1..Len(consumed) |->
                             make_assert_coin_consumed_condition(consumed[k])]
              ELSE c1
        c3 == IF min_time > 0
              THEN Append(c2, make_assert_time_exceeds_condition(min_time))
              ELSE c2
        c4 == IF Truthy(me)
              THEN Append(c3, make_assert_my_coin_id_condition(me[1].id))
              ELSE c3
        c5 == IF fee # 0
              THEN Append(c4, make_assert_fee_condition(fee))
              ELSE c4
    IN  c5

make_solution(primaries, min_time, me, consumed, fee) ==
    IF ~(fee >= 0)
    THEN [status |-> "AssertionError", solution |-> <<>>]
    ELSE [status |-> "ok",
          solution |-> solution_for_conditions(
              make_solution_conditions(primaries, min_time, me, consumed, fee))]

\* make_solution() with every parameter at its default
None == <<>>
make_solution_default == make_solution(None, 0, None, None, 0)

\* ----------------------------------------------------- SpendRequest
SpendRequest(ph, amt) == [puzzle_hash |-> ph, amount |-> amt]

\* ------------------------------------------------- the failures raised
\* the spec's error taxonomy and the Python exception the code raises for it
InvalidArgument == "ValueError: tx create requires one or more input_coins"
InsufficientFunds == "ValueError: input amounts are less than outputs"
PuzzleMismatch == "AssertionError: get_tree_hash() == puzzle_hash"
NegativeFee == "AssertionError: fee >= 0"
MalformedDescription == "KeyError"
AttributeError == "AttributeError: 'Coin' object has no attribute 'pubkey'"

\* ---------------------------------------- create_unsigned_transaction
\* inputs.pop(): the last element, and the list it leaves behind
pop_last(l) == [item |-> l[Len(l)], rest |-> SubSeq(l, 1, Len(l) - 1)]

Raise(kind, list_after) ==
    [status |-> kind, spends |-> <<>>, inputs |-> list_after]

\* the loop of tx.py:116-122 over the inputs left after the pop: it reads the
\* public key from the Coin, which has the three fields of Coin(...) only
RECURSIVE other_spends(_, _)
other_spends(rest, spends) ==
    IF rest = <<>> THEN [status |-> "ok", spends |-> spends]
    ELSE LET coin == Head(rest).coin
             solution == make_solution_default.solution
         IN  IF "pubkey" \notin DOMAIN coin
             THEN [status |-> AttributeError, spends |-> <<>>]
             ELSE other_spends(Tail(rest),
                      Append(spends,
                             CoinSolution(coin,
                                 Program_to(puzzle_for_pk(coin.pubkey), solution))))

origin_spend(origin, outputs) ==
    CoinSolution(origin.coin,
                 Program_to(puzzle_for_pk(origin.pubkey),
                            make_solution(outputs, 0, None, None, 0).solution))

\* a plausible slip: the origin's spend is built but never appended
spends_without_origin(origin, outputs) == <<>>

first_spends(origin, outputs) == <<origin_spend(origin, outputs)>>

create_unsigned_transaction(in, spend_requests, validate) ==
    IF Len(in) < 1 THEN Raise(InvalidArgument, in)
    ELSE
    LET origin == pop_last(in).item
        rest == pop_last(in).rest
        input_value == SumSeq([k \in 1..Len(rest) |-> rest[k].coin.amount])
                       + origin.coin.amount
        sent_value == SumSeq([k \in 1..Len(spend_requests) |->
                                 spend_requests[k].amount])
        outputs == [k \in 1..Len(spend_requests) |->
                       [puzzlehash |-> spend_requests[k].puzzle_hash,
                        amount |-> spend_requests[k].amount]]
        origin_puzzle == puzzle_for_pk(origin.pubkey)
    IN  IF validate /\ sent_value >= input_value
        THEN Raise(InsufficientFunds, rest)
        ELSE IF get_tree_hash(origin_puzzle) # origin.coin.puzzle_hash
        THEN Raise(PuzzleMismatch, rest)
        ELSE LET r == other_spends(rest, first_spends(origin, outputs))
             IN  [status |-> r.status, spends |-> r.spends, inputs |-> rest]

\* -------------------------------------------- the assembler's callers
PubKeys == {G1Element_from_bytes(1), G1Element_from_bytes(2)}

\* the puzzle hash of the standard puzzle of a key, and one no key has
KeyHashes == {get_tree_hash(puzzle_for_pk(k)) : k \in PubKeys}
PuzzleHashes == KeyHashes \cup {0}

\* an input whose coin is locked by its own key's puzzle, or by another one
InputItems ==
    {[coin |-> Coin(9, h, a), pubkey |-> pk] :
        pk \in PubKeys, a \in 1..MaxAmount, h \in PuzzleHashes}

InputLists == SeqsUpTo(InputItems, MaxInputs)
RequestLists == SeqsUpTo({SpendRequest(5, a) : a \in 1..MaxAmount}, MaxOutputs)

Init ==
    /\ inputs = <<>>
    /\ op = "init"
    /\ args = <<>>
    /\ result = <<>>

DoAssemble(in, reqs, validate) ==
    LET r == create_unsigned_transaction(in, reqs, validate)
    IN  /\ op' = "create_unsigned_transaction"
        /\ args' = [inputs |-> in, spend_requests |-> reqs, validate |-> validate]
        /\ result' = [status |-> r.status, spends |-> r.spends]
        /\ inputs' = r.inputs

\* a caller builds a list and calls the assembler with it
Assemble ==
    /\ op = "init"
    /\ \E in \in InputLists, reqs \in RequestLists, validate \in BOOLEAN :
          DoAssemble(in, reqs, validate)

\* the caller calls again with the same list object and the same outputs
AssembleAgain ==
    /\ op = "create_unsigned_transaction"
    /\ DoAssemble(inputs, args.spend_requests, args.validate)

NextAssemble == Assemble \/ AssembleAgain

SpecAssemble == Init /\ [][NextAssemble]_vars

\* ------------------------------------------ claims about the assembler
Assembled == op = "create_unsigned_transaction"

Matches(item) == get_tree_hash(puzzle_for_pk(item.pubkey)) = item.coin.puzzle_hash

InputSum(l) == SumSeq([k \in 1..Len(l) |-> l[k].coin.amount])
OutputSum(l) == SumSeq([k \in 1..Len(l) |-> l[k].amount])

AllMatch(l) == \A k \in 1..Len(l) : Matches(l[k])

\* C1: with validate=true and a non-empty input list, the call fails with
\* InsufficientFunds exactly when the outputs total at least the inputs'
\* total, and succeeds otherwise (stated for inputs whose puzzle hashes
\* match, where no other failure of the assembler is specified).
C1_Conservation ==
    (Assembled /\ args.validate /\ Len(args.inputs) >= 1) =>
        /\ (result.status = InsufficientFunds) <=>
               (OutputSum(args.spend_requests) >= InputSum(args.inputs))
        /\ (/\ OutputSum(args.spend_requests) < InputSum(args.inputs)
            /\ AllMatch(args.inputs)) => result.status = "ok"

C4_OnePerInput ==
    (/\ Assembled
     /\ Len(args.inputs) >= 1
     /\ InputSum(args.inputs) > OutputSum(args.spend_requests)
     /\ AllMatch(args.inputs)) =>
        LET n == Len(args.inputs)
            reqs == args.spend_requests
        IN  /\ result.status = "ok"
            /\ Len(result.spends) = n
            /\ conditions_of(result.spends[1].solution[2]) =
                   [k \in 1..Len(reqs) |->
                       make_create_coin_condition(reqs[k].puzzle_hash,
                                                  reqs[k].amount)]
            /\ \A k \in 2..n :
                   /\ conditions_of(result.spends[k].solution[2]) = <<>>
                   /\ result.spends[k].solution[1] =
                          puzzle_for_pk(args.inputs[k - 1].pubkey)

\* C9: the call leaves the caller's input list as it was handed in.
C9_InputsUnchanged == Assembled => inputs = args.inputs

\* ------------------------------------------- make_solution's callers
CoinIds == {11, 12}
Primaries ==
    SeqsUpTo({[puzzlehash |-> 5, amount |-> a] : a \in 1..MaxAmount}, MaxOutputs)
ConsumedLists == SeqsUpTo(CoinIds, MaxConsumed)
Mes == {None} \cup {<<[id |-> c]>> : c \in CoinIds}

MakeSolution ==
    /\ op = "init"
    /\ \E primaries \in Primaries, min_time \in 0..MaxAmount, me \in Mes,
          consumed \in ConsumedLists, fee \in -1..MaxAmount :
          /\ op' = "make_solution"
          /\ args' = [primaries |-> primaries, min_time |-> min_time, me |-> me,
                      consumed |-> consumed, fee |-> fee]
          /\ result' = make_solution(primaries, min_time, me, consumed, fee)
          /\ UNCHANGED inputs

NextSolution == MakeSolution

SpecSolution == Init /\ [][NextSolution]_vars

\* C6: the returned condition list is one CreateCoin per primary in order,
\* one AssertCoinConsumed per consumed id in order, AssertTimeExceeds iff
\* min_time > 0, AssertMyCoinId iff my_coin_id is given, AssertFee iff the
\* fee is nonzero, in this order and nothing else.
C6_ConditionList ==
    (op = "make_solution" /\ result.status = "ok") =>
        LET creates == [k \in 1..Len(args.primaries) |->
                           [op |-> "CREATE_COIN",
                            args |-> <<args.primaries[k].puzzlehash,
                                       args.primaries[k].amount>>]]
            consumes == [k \in 1..Len(args.consumed) |->
                            [op |-> "ASSERT_COIN_CONSUMED",
                             args |-> <<args.consumed[k]>>]]
            time == IF args.min_time > 0
                    THEN <<[op |-> "ASSERT_TIME_EXCEEDS", args |-> <<args.min_time>>]>>
                    ELSE <<>>
            mine == IF args.me # None
                    THEN <<[op |-> "ASSERT_MY_COIN_ID", args |-> <<args.me[1].id>>]>>
                    ELSE <<>>
            fees == IF args.fee # 0
                    THEN <<[op |-> "ASSERT_FEE", args |-> <<args.fee>>]>>
                    ELSE <<>>
        IN  conditions_of(result.solution) =
                creates \o consumes \o time \o mine \o fees

C6_Witness ==
    /\ op = "make_solution"
    /\ result.status = "ok"
    /\ Len(args.primaries) = 2
    /\ args.primaries[1] # args.primaries[2]
    /\ Len(args.consumed) = 2
    /\ args.min_time > 0
    /\ args.me # None
    /\ args.fee > 0
    /\ Len(conditions_of(result.solution)) = 7

\* ------------------------------------------------------------ strings
\* A Python str the tool is handed is JSON text, a hex string or CLVM
\* source: [kind, value], the value being what a successful parse gives
\* (hex strings keep their digits, 0..15 each).
JsonText(j) == [kind |-> "json", value |-> j]
HexText(digits) == [kind |-> "hex", value |-> digits]
ClvmText(program) == [kind |-> "clvm", value |-> program]

\* hex digits of one byte, and src/util/byte_types.py hexstr_to_bytes on
\* the hex string of a one-byte value
Hex(v) == <<v \div 16, v % 16>>
hexstr_to_bytes(h) == h[1] * 16 + h[2]

\* clvm_tools.binutils.assemble
binutils_assemble(text) == text.value

\* src/util/ints.py uint64, at the two-byte width the model gives an amount
uint64(a) == a % (2 ^ 16)

\* src/types/spend_bundle.py and blspy's G2Element.infinity(): the
\* aggregated signature is SigLen bytes, the identity being 0xc0 0 .. 0
SigLen == 2
G2Element_infinity == [k \in 1..SigLen |-> IF k = 1 THEN 192 ELSE 0]
SpendBundle(coin_solutions, aggregated_signature) ==
    [coin_solutions |-> coin_solutions,
     aggregated_signature |-> aggregated_signature]

\* ------------------------------------ create_unsigned_tx_from_json
\* tx.py:134-144
input_coins_of(s) ==
    [k \in 1..Len(s.input_coins) |->
        LET i == s.input_coins[k]
        IN  [coin |-> Coin(hexstr_to_bytes(i.coin.parent_id),
                           hexstr_to_bytes(i.coin.puzzle_hash),
                           i.coin.amount),
             pubkey |-> G1Element_from_bytes(hexstr_to_bytes(i.pubkey))]]

\* tx.py:145-148
spend_requests_of(s) ==
    [k \in 1..Len(s.spend_requests) |->
        SpendRequest(hexstr_to_bytes(s.spend_requests[k].puzzle_hash),
                     s.spend_requests[k].amount)]

\* tx.py:152-156
raw_input_coin(s) ==
    Coin(hexstr_to_bytes(s.input_coin.parent_id),
         hexstr_to_bytes(s.input_coin.puzzle_hash),
         uint64(s.input_coin.amount))

Failed(kind) == [status |-> kind, bundle |-> SpendBundle(<<>>, <<>>)]

\* a plausible slip: an entry's spends are put in front of the earlier ones
extend_in_front(spends, more) == more \o spends

extend(spends, more) == spends \o more

\* the loop of tx.py:130-162, entry by entry
RECURSIVE parse_spends(_, _)
parse_spends(entries, spends) ==
    IF entries = <<>>
    THEN [status |-> "ok", bundle |-> SpendBundle(spends, G2Element_infinity)]
    ELSE
    LET s == Head(entries)
    IN  IF "spend_requests" \in DOMAIN s
        THEN IF "input_coins" \notin DOMAIN s
             THEN Failed(MalformedDescription)
             ELSE LET r == create_unsigned_transaction(
                               input_coins_of(s), spend_requests_of(s), TRUE)
                  IN  IF r.status # "ok" THEN Failed(r.status)
                      ELSE parse_spends(Tail(entries), extend(spends, r.spends))
        ELSE IF "solution" \in DOMAIN s
        THEN IF "input_coin" \notin DOMAIN s \/ "puzzle_reveal" \notin DOMAIN s
             THEN Failed(MalformedDescription)
             ELSE LET input_coin == raw_input_coin(s)
                      puzzle_reveal == binutils_assemble(s.puzzle_reveal)
                      solution == binutils_assemble(s.solution)
                  IN  IF get_tree_hash(puzzle_reveal) # input_coin.puzzle_hash
                      THEN Failed(PuzzleMismatch)
                      ELSE parse_spends(Tail(entries),
                               Append(spends,
                                      CoinSolution(input_coin,
                                          Program_to(puzzle_reveal, solution))))
        ELSE parse_spends(Tail(entries), spends)

create_unsigned_tx_from_json(json_tx) ==
    IF json_tx.kind # "json" THEN Failed("JSONDecodeError")
    ELSE LET j == json_tx.value
         IN  IF "spends" \notin DOMAIN j THEN Failed(MalformedDescription)
             ELSE parse_spends(j.spends, <<>>)

\* -------------------------------------------------- the parser's callers
KeyOne == G1Element_from_bytes(1)
JsonCoin(h, a) == [parent_id |-> Hex(9), puzzle_hash |-> Hex(h), amount |-> a]
JsonInputs ==
    {[coin |-> JsonCoin(h, MaxAmount), pubkey |-> Hex(KeyOne.g1)] :
        h \in {get_tree_hash(puzzle_for_pk(KeyOne)), 0}}
JsonInputLists ==
    {<<>>} \cup {<<a>> : a \in JsonInputs} \cup {<<a, b>> : a, b \in JsonInputs}
JsonRequestLists ==
    {<<>>} \cup {<<[puzzle_hash |-> Hex(5), amount |-> a]>> : a \in 1..MaxAmount}

DescriptiveEntries ==
    {[input_coins |-> ic, spend_requests |-> sr] :
        ic \in JsonInputLists, sr \in JsonRequestLists}
RawEntries ==
    {[input_coin |-> JsonCoin(h, 1),
      puzzle_reveal |-> ClvmText(puzzle_for_pk(KeyOne)),
      solution |-> ClvmText(make_solution_default.solution)] :
        h \in {get_tree_hash(puzzle_for_pk(KeyOne)), 0}}
\* entries that miss a field of their form, or carry the fields of neither
IncompleteEntries ==
    {[memo |-> Hex(1)]}
    \cup {[input_coins |-> ic] : ic \in {<<a>> : a \in JsonInputs}}
    \cup {[spend_requests |-> <<>>]}
    \cup {[solution |-> ClvmText(make_solution_default.solution)]}
    \cup {[input_coin |-> JsonCoin(0, 1),
           solution |-> ClvmText(make_solution_default.solution)]}
Entries == DescriptiveEntries \cup RawEntries \cup IncompleteEntries

Descriptions ==
    {JsonText([spends |-> e]) : e \in SeqsUpTo(Entries, MaxEntries)}
    \cup {JsonText([memo |-> Hex(1)]), HexText(Hex(1))}

Parse ==
    /\ op = "init"
    /\ \E json_tx \in Descriptions :
          /\ op' = "create_unsigned_tx_from_json"
          /\ args' = [json_tx |-> json_tx]
          /\ result' = create_unsigned_tx_from_json(json_tx)
          /\ UNCHANGED inputs

NextParse == Parse

SpecParse == Init /\ [][NextParse]_vars

\* ---------------------------------------------- claims about the parser
Parsed == op = "create_unsigned_tx_from_json"

IsDescriptive(s) == "spend_requests" \in DOMAIN s
IsRaw(s) == "spend_requests" \notin DOMAIN s /\ "solution" \in DOMAIN s
Complete(s) ==
    \/ {"input_coins", "spend_requests"} \subseteq DOMAIN s
    \/ {"input_coin", "puzzle_reveal", "solution"} \subseteq DOMAIN s

HasSpends == args.json_tx.kind = "json" /\ "spends" \in DOMAIN args.json_tx.value
EntriesOf == args.json_tx.value.spends

\* C2: a coin whose puzzle hash differs from the tree hash of the puzzle
\* derived for it makes the assembler fail with PuzzleMismatch, for the
\* origin and for every other input (unless the value check already
\* failed), and no coin-solution returned by the assembler or the parser
\* pairs a coin with a puzzle of another hash.
C2_PuzzleHashChecked ==
    /\ Assembled =>
        /\ (/\ \E k \in 1..Len(args.inputs) : ~Matches(args.inputs[k])
            /\ result.status # InsufficientFunds)
               => result.status = PuzzleMismatch
        /\ \A k \in 1..Len(result.spends) :
               get_tree_hash(result.spends[k].solution[1])
                   = result.spends[k].coin.puzzle_hash
    /\ (Parsed /\ result.status = "ok") =>
        \A k \in 1..Len(result.bundle.coin_solutions) :
            get_tree_hash(result.bundle.coin_solutions[k].solution[1])
                = result.bundle.coin_solutions[k].coin.puzzle_hash

\* C7: a description with an entry that misses a required field (one that
\* carries the fields of neither form included) is never turned into a
\* bundle, and fails with MalformedDescription when such entries are all
\* it holds.
C7_MissingFieldsRejected ==
    (/\ Parsed
     /\ HasSpends
     /\ \E k \in 1..Len(EntriesOf) : ~Complete(EntriesOf[k])) =>
        /\ result.status # "ok"
        /\ (\A k \in 1..Len(EntriesOf) : ~Complete(EntriesOf[k]))
               => result.status = MalformedDescription

\* what the spec has one entry contribute to the bundle
Contribution(s) ==
    IF IsDescriptive(s)
    THEN create_unsigned_transaction(
             input_coins_of(s), spend_requests_of(s), TRUE).spends
    ELSE <<CoinSolution(raw_input_coin(s),
                        <<binutils_assemble(s.puzzle_reveal),
                          binutils_assemble(s.solution)>>)>>

\* C8: a successful parse of entries that are each of the descriptive or of
\* the raw form returns the concatenation, in description order, of the
\* entries' contributions (one coin-solution for a raw entry, the
\* assembler's result, one per input coin, for a descriptive one), signed
\* with the group-identity placeholder.
C8_Concatenation ==
    (/\ Parsed
     /\ result.status = "ok"
     /\ \A k \in 1..Len(EntriesOf) : Complete(EntriesOf[k])) =>
        /\ result.bundle.coin_solutions =
               Concat([k \in 1..Len(EntriesOf) |-> Contribution(EntriesOf[k])])
        /\ \A k \in 1..Len(EntriesOf) :
               IsDescriptive(EntriesOf[k]) =>
                   Len(Contribution(EntriesOf[k])) = Len(EntriesOf[k].input_coins)
        /\ result.bundle.aggregated_signature = G2Element_infinity

C8_Witness ==
    /\ Parsed
    /\ result.status = "ok"
    /\ Len(EntriesOf) = 2
    /\ IsDescriptive(EntriesOf[1]) /\ Complete(EntriesOf[1])
    /\ IsRaw(EntriesOf[2]) /\ Complete(EntriesOf[2])
    /\ Len(result.bundle.coin_solutions) = 2
    /\ result.bundle.coin_solutions[1] # result.bundle.coin_solutions[2]

\* ------------------------------------------------------ the wire format
\* bytes(spend_bundle) and SpendBundle.from_bytes (src/util/streamable.py):
\* the number of coin-solutions, each coin's three fields and its puzzle
\* and solution programs, then the fixed-width aggregated signature
MalformedBundle == "ValueError: SpendBundle.from_bytes"

Coin_bytes(c) ==
    <<c.parent_id, c.puzzle_hash, (c.amount \div 256) % 256, c.amount % 256>>

Program_bytes(p) == <<Len(p)>> \o FlattenProgram(p)

CoinSolution_bytes(cs) ==
    Coin_bytes(cs.coin) \o Program_bytes(cs.solution[1])
        \o Program_bytes(cs.solution[2])

SpendBundle_bytes(b) ==
    <<Len(b.coin_solutions)>>
        \o Concat([k \in 1..Len(b.coin_solutions) |->
                      CoinSolution_bytes(b.coin_solutions[k])])
        \o b.aggregated_signature

OpName(n) ==
    CASE n = 1 -> "q"
      [] n = 2 -> "p2_delegated_puzzle"
      [] n = 51 -> "CREATE_COIN"
      [] n = 52 -> "ASSERT_COIN_CONSUMED"
      [] n = 53 -> "ASSERT_MY_COIN_ID"
      [] n = 54 -> "ASSERT_TIME_EXCEEDS"
      [] n = 58 -> "ASSERT_FEE"
      [] OTHER -> ""

NoRead == [ok |-> FALSE, value |-> <<>>, rest |-> <<>>]
Drop(bs, n) == SubSeq(bs, n + 1, Len(bs))

RECURSIVE ReadNodes(_, _, _)
ReadNodes(bs, n, acc) ==
    IF n = 0 THEN [ok |-> TRUE, value |-> acc, rest |-> bs]
    ELSE IF Len(bs) < 2 THEN NoRead
    ELSE IF OpName(bs[1]) = "" \/ Len(bs) < 2 + bs[2] THEN NoRead
    ELSE ReadNodes(Drop(bs, 2 + bs[2]), n - 1,
                   Append(acc, [op |-> OpName(bs[1]),
                                args |-> SubSeq(bs, 3, 2 + bs[2])]))

ReadProgram(bs) ==
    IF bs = <<>> THEN NoRead ELSE ReadNodes(Tail(bs), bs[1], <<>>)

ReadCoinSolution(bs) ==
    IF Len(bs) < 4 THEN NoRead
    ELSE LET coin == Coin(bs[1], bs[2], bs[3] * 256 + bs[4])
             puzzle == ReadProgram(Drop(bs, 4))
             solution == ReadProgram(puzzle.rest)
         IN  IF ~puzzle.ok \/ ~solution.ok THEN NoRead
             ELSE [ok |-> TRUE,
                   value |-> CoinSolution(coin, <<puzzle.value, solution.value>>),
                   rest |-> solution.rest]

RECURSIVE ReadCoinSolutions(_, _, _)
ReadCoinSolutions(bs, n, acc) ==
    IF n = 0 THEN [ok |-> TRUE, value |-> acc, rest |-> bs]
    ELSE LET r == ReadCoinSolution(bs)
         IN  IF ~r.ok THEN NoRead
             ELSE ReadCoinSolutions(r.rest, n - 1, Append(acc, r.value))

SpendBundle_from_bytes(bs) ==
    IF bs = <<>> THEN NoRead
    ELSE LET r == ReadCoinSolutions(Tail(bs), bs[1], <<>>)
         IN  IF ~r.ok \/ Len(r.rest) # SigLen THEN NoRead
             ELSE [ok |-> TRUE, value |-> SpendBundle(r.value, r.rest),
                   rest |-> <<>>]

\* bytes.hex() and bytes.fromhex()
bytes_hex(bs) == Concat([k \in 1..Len(bs) |-> Hex(bs[k])])
bytes_fromhex(d) == [k \in 1..(Len(d) \div 2) |-> d[2 * k - 1] * 16 + d[2 * k]]

\* ----------------------------- encode_spendbundle / decode_spendbundle
\* a plausible slip: each byte printed as a hex number, without its leading 0
encode_spendbundle_unpadded(spend_bundle) ==
    HexText(Concat([k \in 1..Len(SpendBundle_bytes(spend_bundle)) |->
        LET v == SpendBundle_bytes(spend_bundle)[k]
        IN  IF v < 16 THEN <<v>> ELSE Hex(v)]))

encode_spendbundle(spend_bundle) ==
    HexText(bytes_hex(SpendBundle_bytes(spend_bundle)))

decode_spendbundle(spend_bundle_bytes) ==
    IF spend_bundle_bytes.kind # "hex" \/ Len(spend_bundle_bytes.value) % 2 # 0
    THEN Failed("ValueError: fromhex")
    ELSE LET r == SpendBundle_from_bytes(bytes_fromhex(spend_bundle_bytes.value))
         IN  IF r.ok THEN [status |-> "ok", bundle |-> r.value]
             ELSE Failed(MalformedBundle)

\* --------------------------------------------------- the codec's callers
MaxSpends == 2
CodecSolutions ==
    {make_solution_default.solution,
     make_solution(<<[puzzlehash |-> 5, amount |-> 1]>>, 0, None, None, 0).solution,
     make_solution(None, 1, <<[id |-> 11]>>, <<12>>, 2).solution}
CodecSpends ==
    {CoinSolution(Coin(9, h, a), Program_to(puzzle_for_pk(KeyOne), sol)) :
        h \in {get_tree_hash(puzzle_for_pk(KeyOne)), 0}, a \in {1, 300},
        sol \in CodecSolutions}
RealSignature == [k \in 1..SigLen |-> 160 + k]
Bundles ==
    {SpendBundle(cs, sig) :
        cs \in SeqsUpTo(CodecSpends, MaxSpends),
        sig \in {G2Element_infinity, RealSignature}}

\* a bundle is encoded and the hex string decoded again
RoundTrip ==
    /\ op = "init"
    /\ \E b \in Bundles :
          /\ op' = "decode_spendbundle(encode_spendbundle)"
          /\ args' = [spend_bundle |-> b]
          /\ result' = decode_spendbundle(encode_spendbundle(b))
          /\ UNCHANGED inputs

\* the first n hex digits of an encoding are decoded
DecodeTruncated ==
    /\ op = "init"
    /\ \E b \in {x \in Bundles : Len(x.coin_solutions) <= 1} :
       \E n \in 0..(Len(encode_spendbundle(b).value) - 1) :
          /\ op' = "decode_spendbundle"
          /\ args' = [spend_bundle_bytes |->
                         HexText(SubSeq(encode_spendbundle(b).value, 1, n))]
          /\ result' = decode_spendbundle(args'.spend_bundle_bytes)
          /\ UNCHANGED inputs

NextCodec == RoundTrip \/ DecodeTruncated

SpecCodec == Init /\ [][NextCodec]_vars

\* C5: decoding the encoding of a bundle gives the bundle back, whether
\* its signature is a real one or the group-identity placeholder.
C5_RoundTrip ==
    op = "decode_spendbundle(encode_spendbundle)" =>
        /\ result.status = "ok"
        /\ result.bundle = args.spend_bundle

C5_Witness ==
    /\ op = "decode_spendbundle(encode_spendbundle)"
    /\ Len(args.spend_bundle.coin_solutions) = 2
    /\ args.spend_bundle.coin_solutions[1] # args.spend_bundle.coin_solutions[2]
    /\ args.spend_bundle.aggregated_signature # G2Element_infinity
    /\ result.bundle = args.spend_bundle

\* ------------------------------------------------------------- handler
command_list ==
    <<"create", "verify", "sign", "push", "encode", "decode", "view-coins",
      "get-address">>

\* parser.exit(status) ends the process; a handler that returns leaves no status
Exited(action, status) == [action |-> action, exit |-> <<status>>, out |-> <<>>]
Returned(action, out) == [action |-> action, exit |-> <<>>, out |-> out]

fail_cmd(msg) == Exited(msg, 1)

handler(command, cmd_args) ==
    IF \A k \in 1..Len(command_list) : command_list[k] # command
    THEN Exited("help_message", 1)
    ELSE IF Len(cmd_args) < 1 THEN fail_cmd("Too few arguments")
    ELSE IF Len(cmd_args) > 1 THEN fail_cmd("Too many arguments")
    ELSE IF command = "create"
    THEN Returned("create", create_unsigned_tx_from_json(cmd_args[1]))
    ELSE IF command = "verify" THEN Returned("verify", <<>>)
    ELSE IF command = "sign"
    THEN Returned("sign", create_unsigned_tx_from_json(cmd_args[1]))
    ELSE IF command = "push"
    THEN Returned("push", create_unsigned_tx_from_json(cmd_args[1]))
    ELSE IF command = "encode" THEN Returned("encode", <<>>)
    ELSE IF command = "decode"
    THEN Returned("decode", decode_spendbundle(cmd_args[1]))
    ELSE IF command = "view-coins" THEN Exited("view-coins", 0)
    ELSE Exited("not recognised", 1)

\* ------------------------------------------------- the handler's callers
MaxArgs == 2
Commands == {command_list[k] : k \in 1..Len(command_list)} \cup {"bogus"}
CmdArgs ==
    {JsonText([spends |-> <<e>>]) : e \in RawEntries}
    \cup {JsonText([spends |-> <<[memo |-> Hex(1)]>>])}
    \cup {encode_spendbundle(SpendBundle(<<>>, G2Element_infinity)),
          HexText(Hex(1))}

Handle ==
    /\ op = "init"
    /\ \E command \in Commands, cmd_args \in SeqsUpTo(CmdArgs, MaxArgs) :
          /\ op' = "handler"
          /\ args' = [command |-> command, cmd_args |-> cmd_args]
          /\ result' = handler(command, cmd_args)
          /\ UNCHANGED inputs

NextHandler == Handle

SpecHandler == Init /\ [][NextHandler]_vars

\* C10: a command of command_list given exactly one argument is dispatched
\* to its own action and never reaches the "not recognised" branch or exit
\* status 1; status 1 is left to unknown commands and wrong argument counts.
C10_EveryCommandDispatched ==
    op = "handler" =>
        LET listed == \E k \in 1..Len(command_list) : command_list[k] = args.command
        IN  /\ (listed /\ Len(args.cmd_args) = 1) =>
                   /\ result.action = args.command
                   /\ result.exit # <<1>>
            /\ result.exit = <<1>> => (~listed \/ Len(args.cmd_args) # 1)

====
